---- MODULE Spec2Model ----
(***************************************************************************)
(* Model of the queued-motion engine of src/chassis.py                     *)
(* (BaseQueuedChassis and QueuedMotion).  The chassis-specific update      *)
(* functions (_update_move, _update_turn, _update_peripheral) are          *)
(* callbacks: each invocation either returns True (still running),         *)
(* returns False (finished) or raises (NotImplementedError in the base     *)
(* class and in TestChassis).  The hooks _on_start_new_motion,             *)
(* _on_queue_finish and _on_post_update are recorded in the trace of the   *)
(* call that invokes them.                                                 *)
(*                                                                         *)
(* Headings are Python floats in the source; they are modelled by          *)
(* integers, so rounding is not part of the model.                         *)
(***************************************************************************)
EXTENDS Integers, Sequences, FiniteSets, TLC

\* ------------------------------------------------------------------ bounds
\* total number of commands enqueued in one behaviour
MaxCmds == 3

\* ------------------------------------------------------------- input sets
Points == {<<0, 0>>, <<1, 0>>}
StartAngles == {0, 1}
Headings == {0, 1}
Deltas == {-1, 0, 1}
\* outcome of one invocation of a command's update function
Outcomes == {"running", "finished", "raise"}

VARIABLES
    queue,        \* self._queue: sequence of QueuedMotion
    position,     \* self._position
    angle,        \* self._angle
    is_idle,      \* self._is_idle
    \* ---- observation of the calls (history, not program state)
    nextId,       \* identity of the next QueuedMotion object constructed
    completed,    \* ids of the commands removed from the queue, in order
    startCount,   \* per command: invocations of _on_start_new_motion (capped)
    setupCount,   \* per command: invocations of QueuedMotion.setup's hook (capped)
    updated,      \* per command: has its update function been invoked
    startedFirst, \* per command: was the start hook invoked before the first update
    setupFirst,   \* per command: was the setup hook invoked before the first update
    owedFinish,   \* emptyings of the queue not yet followed by _on_queue_finish
    finishOK,     \* no _on_queue_finish so far without an emptying owed
    angle0,       \* starting_angle given to __init__
    sumDeltas,    \* sum of the deltas of all Turn commands enqueued
    lastOp,       \* name of the last public method called
    arg,          \* its arguments
    calls,        \* hooks and callbacks invoked by it, in order
    raised        \* did it raise

vars == <<queue, position, angle, is_idle, nextId, completed, startCount,
          setupCount, updated, startedFirst, setupFirst, owedFinish, finishOK,
          angle0, sumDeltas, lastOp, arg, calls, raised>>

\* ---- devices (src/devices.py): the drive wheels and their motors
VARIABLES
    wheels,       \* per side: the Wheel object (_start_pos, _goal_pos, _velocity)
    motors,       \* per side: the motor behind it (raw encoder, velocity written, inversion)
    wobs          \* observation: the last Wheel method called and what it returned

wheelVars == <<wheels, motors, wobs>>

\* ---- the simulated robot (src/mock_robot.py) and the wall clock
VARIABLES
    clock,        \* time.time(), in seconds
    dev,          \* MockRobot._devices[id] for one koalabear id
    mobs          \* observation: the last MockRobot call and its result

mockVars == <<clock, dev, mobs>>

\* ---- the kinematics estimator and the concrete chassis (src/chassis.py)
VARIABLES
    kin,          \* observation: the last _estimate_travel_time call and its result
    tstart,       \* TestChassis._motion_start_timestamp
    cobs          \* observation: what the last update() of a concrete chassis did

kinVars == <<kin>>
subVars == <<tstart, cobs>>

Ids == 1..MaxCmds
NoArg == [pos |-> <<0, 0>>, ang |-> 0, act |-> FALSE]
Call(h, i) == [h |-> h, id |-> i]

\* ------------------------------------------------------------ QueuedMotion
\* QueuedMotion(update_func, data, setup_func): kind names update_func,
\* from/to/ang are the data, setup tells whether setup_func is set.
MoveMotion(i, pos, end_pos, a) ==
    [id |-> i, kind |-> "move", from |-> pos, to |-> end_pos, ang |-> a, setup |-> FALSE]
TurnMotion(i, d) ==
    [id |-> i, kind |-> "turn", from |-> <<0, 0>>, to |-> <<0, 0>>, ang |-> d, setup |-> FALSE]
PeripheralMotion(i, act) ==
    [id |-> i, kind |-> "peripheral", from |-> <<0, 0>>, to |-> <<0, 0>>, ang |-> 0, setup |-> act]

\* QueuedMotion.setup: runs the setup function when there is one
setup(c) == IF c.setup THEN <<Call("setup", c.id)>> ELSE <<>>

\* ------------------------------------------------------------ queue helpers
Enqueue_prepend(q, c) == <<c>> \o q
\* self._queue.append(...)
Enqueue(q, c) == Append(q, c)

PopFront_last(q) == SubSeq(q, 1, Len(q) - 1)
\* self._queue.pop(0)
PopFront(q) == Tail(q)

IdsOf(q) == [k \in 1..Len(q) |-> q[k].id]

\* ------------------------------------------------------- device records
Sides == {"left", "right"}
\* a rational number n/d with d # 0 (Python floats in the source)
Frac(n, d) == [n |-> n, d |-> d]
\* a Wheel after __init__: _start_pos is None, _goal_pos and _velocity unset
NewWheel ==
    [has_start |-> FALSE, start_pos |-> 0, has_goal |-> FALSE, goal_pos |-> 0,
     velocity |-> Frac(0, 1)]
\* a Motor: raw encoder of the controller, velocity last written, set_invert flag
NewMotor(inv) == [enc |-> 0, vel |-> Frac(0, 1), inv |-> inv]
NoWobs == [op |-> "init", side |-> "left", goal |-> 0, kind |-> "none", n |-> 0, d |-> 1]

\* MockRobot._devices without the koalabear: nothing has referred to it yet
NoDevice ==
    [present |-> FALSE, velocity_a |-> 0, velocity_b |-> 0, enc_a |-> 0, enc_b |-> 0,
     enc_float |-> FALSE, invert_a |-> FALSE, last |-> 0]
\* a Python value: its type and its number (a bool as 0 or 1)
TV(t, v) == [t |-> t, v |-> v]
NoMobs == [op |-> "init", name |-> "enc_a", val |-> TV("int", 0), kind |-> "none", res |-> 0]

NoKin ==
    [op |-> "init", v_i |-> 0, dist |-> 0, v_max |-> 1, a |-> 1, must_stop |-> FALSE,
     kind |-> "none", t_c |-> Frac(0, 1), t_f |-> Frac(0, 1)]
\* _motion_start_timestamp is a slot that __init__ leaves unset
NoStart == [set |-> FALSE, t |-> 0]
\* cls names the class of the chassis; the rest describes its last update()
NoCobs ==
    [cls |-> "BaseQueuedChassis", kind |-> "none", timed |-> FALSE, elapsed |-> 0,
     t_c |-> Frac(0, 1), t_f |-> Frac(0, 1), wrote |-> FALSE]

\* each part of the state as it is when the specification at hand leaves it alone
WheelIdle ==
    /\ wheels = [s \in Sides |-> NewWheel]
    /\ motors = [s \in Sides |-> NewMotor(s = "right")]
    /\ wobs = NoWobs
MockIdle ==
    /\ clock = 1
    /\ dev = NoDevice
    /\ mobs = NoMobs
KinIdle == kin = NoKin
SubIdle == tstart = NoStart /\ cobs = NoCobs
DevicesIdle == WheelIdle /\ MockIdle /\ KinIdle /\ SubIdle
devVars == <<wheelVars, mockVars, kinVars, subVars>>

\* ------------------------------------------------------------------- Init
Init ==
    /\ DevicesIdle
    /\ queue = <<>>
    /\ position \in Points
    /\ angle \in StartAngles
    /\ is_idle = TRUE
    /\ nextId = 1
    /\ completed = <<>>
    /\ startCount = [i \in Ids |-> 0]
    /\ setupCount = [i \in Ids |-> 0]
    /\ updated = [i \in Ids |-> FALSE]
    /\ startedFirst = [i \in Ids |-> FALSE]
    /\ setupFirst = [i \in Ids |-> FALSE]
    /\ owedFinish = 0
    /\ finishOK = TRUE
    /\ angle0 = angle
    /\ sumDeltas = 0
    /\ lastOp = "init"
    /\ arg = NoArg
    /\ calls = <<>>
    /\ raised = FALSE

\* ----------------------------------------------------- observation helpers
Cap(n) == IF n > 2 THEN 2 ELSE n
CountOf(cs, h, i) == Cardinality({k \in 1..Len(cs) : cs[k] = Call(h, i)})
Has(cs, h, i) == \E k \in 1..Len(cs) : cs[k] = Call(h, i)
\* some invocation of hook h for command i precedes the update of i in cs
Precedes(cs, h, i) ==
    \E k \in 1..Len(cs) : \E j \in 1..(k - 1) :
        cs[k] = Call("update", i) /\ cs[j] = Call(h, i)
NeedsSetup(q, i) == \E k \in 1..Len(q) : q[k].id = i /\ q[k].setup

\* ------------------------------------------------- move / turn / orient
move_position_keep(pos, end_pos) == pos
\* self._position = end_pos
move_position(pos, end_pos) == end_pos

turn_angle_keep(a, d) == a
\* self._angle += angle
turn_angle(a, d) == a + d

orient_delta_absolute(a, cur) == a
\* angle - self._angle, the argument orient passes to turn
orient_delta(a, cur) == a - cur

\* self._angle = angle, after turn() has left the heading at turned
orient_angle(a, turned) == a

\* what every enqueueing method leaves alone in the observation
Quiet(op, a) ==
    /\ nextId' = nextId + 1
    /\ lastOp' = op
    /\ arg' = a
    /\ calls' = <<>>
    /\ raised' = FALSE
    /\ UNCHANGED <<completed, startCount, setupCount, updated, startedFirst,
                   setupFirst, owedFinish, finishOK, angle0>>
    /\ UNCHANGED devVars

move(end_pos, a) ==
    /\ nextId <= MaxCmds
    /\ queue' = Enqueue(queue, MoveMotion(nextId, position, end_pos, a))
    /\ position' = move_position(position, end_pos)
    /\ UNCHANGED <<angle, is_idle, sumDeltas>>
    /\ Quiet("move", [pos |-> end_pos, ang |-> a, act |-> FALSE])

turn(d) ==
    /\ nextId <= MaxCmds
    /\ queue' = Enqueue(queue, TurnMotion(nextId, d))
    /\ angle' = turn_angle(angle, d)
    /\ sumDeltas' = sumDeltas + d
    /\ UNCHANGED <<position, is_idle>>
    /\ Quiet("turn", [pos |-> <<0, 0>>, ang |-> d, act |-> FALSE])

\* orient calls turn(angle - self._angle), then overwrites self._angle
orient(a) ==
    /\ nextId <= MaxCmds
    /\ LET d == orient_delta(a, angle)
           afterTurn == turn_angle(angle, d)
       IN /\ queue' = Enqueue(queue, TurnMotion(nextId, d))
          /\ angle' = orient_angle(a, afterTurn)
          /\ sumDeltas' = sumDeltas + d
    /\ UNCHANGED <<position, is_idle>>
    /\ Quiet("orient", [pos |-> <<0, 0>>, ang |-> a, act |-> FALSE])

peripheral_action(act) ==
    /\ nextId <= MaxCmds
    /\ queue' = Enqueue(queue, PeripheralMotion(nextId, act))
    /\ UNCHANGED <<position, angle, is_idle, sumDeltas>>
    /\ Quiet("peripheral_action", [pos |-> <<0, 0>>, ang |-> 0, act |-> act])

\* ----------------------------------------------------------------- update
\* lines 44-45: the start hook of the head, when the chassis was idle
start_calls(q, idl) ==
    IF q # <<>> /\ idl THEN <<Call("start", Head(q).id)>> ELSE <<>>

idle_after_start_keep(q, idl) == idl
\* lines 44,46: self._is_idle = False
idle_after_start(q, idl) == IF q # <<>> /\ idl THEN FALSE ELSE idl

after_pop_calls_eager(q) ==
    IF q # <<>>
    THEN <<Call("start", Head(q).id)>> \o setup(Head(q)) \o <<Call("update", Head(q).id)>>
    ELSE <<>>
\* lines 50-52, q is the queue after the pop: start hook, then setup, of the new head
after_pop_calls(q) ==
    IF q # <<>> THEN <<Call("start", Head(q).id)>> \o setup(Head(q)) ELSE <<>>

\* line 47: the head's update function raised
update_raises(q, r) == q # <<>> /\ r = "raise"

\* lines 47,49: the head is popped when its update function returned False
update_queue(q, r) == IF q # <<>> /\ r = "finished" THEN PopFront(q) ELSE q

\* lines 53-55: reached only when the condition of line 47 was false
update_idle(q, idl, r) ==
    LET i1 == idle_after_start(q, idl)
    IN IF q # <<>> THEN i1
       ELSE IF ~i1 THEN TRUE ELSE i1

\* lines 44-55: hooks and callbacks invoked, in order
body_calls(q, idl, r) ==
    start_calls(q, idl) \o
    (IF q # <<>>
     THEN <<Call("update", Head(q).id)>> \o
          (IF r = "finished" THEN after_pop_calls(PopFront(q)) ELSE <<>>)
     ELSE IF ~idle_after_start(q, idl) THEN <<Call("finish", 0)>> ELSE <<>>)

update_calls_early_return(q, idl, r) ==
    IF q = <<>> /\ idl THEN <<>>
    ELSE body_calls(q, idl, r) \o
         (IF update_raises(q, r) THEN <<>> ELSE <<Call("post", 0)>>)
\* lines 44-56: the post-update hook closes every call that does not raise
update_calls(q, idl, r) ==
    body_calls(q, idl, r) \o
    (IF update_raises(q, r) THEN <<>> ELSE <<Call("post", 0)>>)

\* lines 42-56, all but whether the call raised
update_body(r) ==
    LET cs == update_calls(queue, is_idle, r)
        q2 == update_queue(queue, r)
        popped == Len(q2) < Len(queue)
        emptied == popped /\ q2 = <<>>
        fin == Has(cs, "finish", 0)
    IN /\ queue' = q2
       /\ is_idle' = update_idle(queue, is_idle, r)
       /\ UNCHANGED <<position, angle, nextId, angle0, sumDeltas>>
       /\ completed' = IF popped THEN Append(completed, Head(queue).id) ELSE completed
       /\ startCount' = [i \in Ids |-> Cap(startCount[i] + CountOf(cs, "start", i))]
       /\ setupCount' = [i \in Ids |-> Cap(setupCount[i] + CountOf(cs, "setup", i))]
       /\ updated' = [i \in Ids |-> updated[i] \/ Has(cs, "update", i)]
       /\ startedFirst' = [i \in Ids |->
            IF updated[i] \/ ~Has(cs, "update", i) THEN startedFirst[i]
            ELSE startCount[i] > 0 \/ Precedes(cs, "start", i)]
       /\ setupFirst' = [i \in Ids |->
            IF updated[i] \/ ~Has(cs, "update", i) THEN setupFirst[i]
            ELSE ~NeedsSetup(queue, i) \/ setupCount[i] > 0 \/ Precedes(cs, "setup", i)]
       /\ owedFinish' = Cap(owedFinish + (IF emptied THEN 1 ELSE 0)
                                       - (IF fin /\ owedFinish > 0 THEN 1 ELSE 0))
       /\ finishOK' = (finishOK /\ (fin => owedFinish > 0 /\ queue = <<>>))
       /\ lastOp' = "update"
       /\ arg' = NoArg
       /\ calls' = cs

update(r) == update_body(r) /\ raised' = update_raises(queue, r)

\* ------------------------------------------------------------------- Next
\* update() of a chassis whose update functions and hooks touch no device
base_update(r) == update(r) /\ UNCHANGED devVars

Next ==
    \/ \E p \in Points : \E a \in Headings : move(p, a)
    \/ \E d \in Deltas : turn(d)
    \/ \E a \in Headings : orient(a)
    \/ \E act \in BOOLEAN : peripheral_action(act)
    \/ \E r \in Outcomes : base_update(r)

Spec == Init /\ [][Next]_vars

\* ================================================================ claims
UpdateCallIdx(cs) == {k \in 1..Len(cs) : cs[k].h = "update"}
\* the last update() call popped the command it updated
PoppedInLastCall ==
    /\ completed # <<>>
    /\ Has(calls, "update", completed[Len(completed)])

\* C1: commands leave the queue in the order they were enqueued: the commands
\* completed so far followed by the commands still queued are always the
\* commands enqueued, in enqueue order; update() leaves the queue alone or
\* removes exactly its front element; an enqueue appends one command at the
\* tail and keeps the others in place.
FifoInv == completed \o IdsOf(queue) = [k \in 1..(nextId - 1) |-> k]
QueueStep ==
    /\ lastOp' = "update" =>
          \/ queue' = queue /\ completed' = completed
          \/ /\ queue # <<>>
             /\ queue' = Tail(queue)
             /\ completed' = Append(completed, Head(queue).id)
    /\ lastOp' # "update" =>
          /\ Len(queue') = Len(queue) + 1
          /\ SubSeq(queue', 1, Len(queue)) = queue
          /\ queue'[Len(queue')].id = nextId
          /\ completed' = completed
QueueOrder == []FifoInv /\ [][QueueStep]_vars
QueueOrderWitness ==
    /\ completed = <<1, 2>>
    /\ Len(queue) = 1
    /\ lastOp = "update"

\* C2: an update() call invokes the update function of at most one command,
\* and that command is the head of the queue as the call began; no other
\* command is updated, the head exposed by a pop included.
HeadOnlyUpdated ==
    [][lastOp' = "update" =>
         /\ Cardinality(UpdateCallIdx(calls')) <= 1
         /\ \A k \in UpdateCallIdx(calls') :
                queue # <<>> /\ calls'[k].id = Head(queue).id
         /\ \A i \in Ids : (updated'[i] /\ ~updated[i]) =>
                queue # <<>> /\ i = Head(queue).id]_vars
HeadOnlyUpdatedWitness ==
    /\ lastOp = "update"
    /\ Has(calls, "update", 1)
    /\ Has(calls, "start", 2)
    /\ queue # <<>> /\ Head(queue).id = 2
    /\ ~updated[2]

IdleAfterUpdateInv ==
    lastOp = "update" =>
        /\ is_idle => queue = <<>>
        /\ (queue = <<>> /\ ~is_idle) => PoppedInLastCall
IdleKeptByEnqueue == lastOp' # "update" => is_idle' = is_idle
HooksFireOnce ==
    /\ \A i \in Ids :
          /\ startCount[i] <= 1
          /\ updated[i] => (startedFirst[i] /\ startCount[i] = 1)
    /\ finishOK
    /\ owedFinish <= 1

\* C5: update() never returns with an empty queue and the idle flag false;
\* the call that pops the last command invokes the finish hook itself.
FinishInSameCall ==
    (lastOp = "update" /\ ~raised /\ queue = <<>>) =>
        /\ is_idle
        /\ PoppedInLastCall => Has(calls, "finish", 0)

\* C6: the setup hook of every command that has one is invoked exactly once,
\* and before the command's update function is first called.
SetupOnceBeforeUpdate ==
    \A i \in Ids :
        /\ setupCount[i] <= 1
        /\ updated[i] => setupFirst[i]

MoveEffect ==
    [][lastOp' = "move" =>
         /\ position' = arg'.pos
         /\ queue' = Append(queue, MoveMotion(nextId, position, arg'.pos, arg'.ang))
         /\ is_idle' = is_idle
         /\ angle' = angle
         /\ calls' = <<>>
         /\ updated' = updated /\ completed' = completed]_vars
MoveEffectWitness ==
    /\ lastOp = "move"
    /\ arg.pos = <<1, 0>>
    /\ position = <<1, 0>>
    /\ Len(queue) = 1
    /\ queue[1].from = <<0, 0>>
    /\ is_idle
    /\ \A i \in Ids : ~updated[i]

\* C9: turn(d) appends one Turn command of delta d and adds d to the logical
\* heading at once; the heading always equals the starting heading plus the
\* sum of the deltas of the Turn commands enqueued, whatever updates have
\* run, so turn(x) followed by turn(-x) restores it.
HeadingIsSum == angle = angle0 + sumDeltas
TurnStep ==
    /\ lastOp' = "turn" =>
          /\ queue' = Append(queue, TurnMotion(nextId, arg'.ang))
          /\ angle' = angle + arg'.ang
    /\ lastOp' = "update" => angle' = angle
HeadingTracksTurns == []HeadingIsSum /\ [][TurnStep]_vars
HeadingTracksTurnsWitness ==
    /\ lastOp = "turn"
    /\ arg.ang = -1
    /\ completed = <<1>>
    /\ Len(queue) = 1
    /\ sumDeltas = 0
    /\ angle = angle0

\* C10: orient(angle) appends exactly one Turn command whose delta is angle
\* minus the logical heading before the call, and leaves the logical heading
\* equal to angle.
OrientEffect ==
    [][lastOp' = "orient" =>
         /\ queue' = Append(queue, TurnMotion(nextId, arg'.ang - angle))
         /\ angle' = arg'.ang]_vars
OrientEffectWitness ==
    /\ lastOp = "orient"
    /\ arg.ang = 0
    /\ angle = 0
    /\ queue # <<>>
    /\ queue[Len(queue)] = TurnMotion(nextId - 1, -2)

\* ======================================================= src/devices.py
\* ------------------------------------------------------------------ bounds
\* the raw encoder is observed within -MaxTicks..MaxTicks (and at +-4253)
MaxTicks == 2

\* Distances are counted in units of which TicksDen make TicksNum encoder
\* ticks: TicksNum / TicksDen stands for ticks_per_rot / (radius * 2 * pi).
TicksNum == 1
TicksDen == 2

EncVals == ((-MaxTicks)..MaxTicks) \cup {-4253, 4253}
Dists == ((-2 * MaxTicks)..(2 * MaxTicks)) \cup {8506}
Vels == {Frac(k, 2) : k \in -2..2}

\* -------------------------------------------------------------- arithmetic
\* math.ceil(a / b) for b > 0
CeilDiv(a, b) == -((-a) \div b)
IAbs(x) == IF x < 0 THEN -x ELSE x
FracAbs(v) == Frac(IAbs(v.n), IAbs(v.d))
FracNeg(v) == Frac(-v.n, v.d)
\* v >= 1
FracGeOne(v) == IF v.d > 0 THEN v.n >= v.d ELSE v.n <= v.d
\* math.copysign(v, g) for an integer g
copysign(v, g) == IF g >= 0 THEN FracAbs(v) ELSE FracNeg(FracAbs(v))

\* what a method call produced: a number n/d, or the exception raised
Ret(n, d) == [kind |-> "value", n |-> n, d |-> d]
Raise(e) == [kind |-> e, n |-> 0, d |-> 1]

\* ------------------------------------------------------------------- Motor
\* Motor.get_encoder: the raw encoder, negated for an inverted motor
get_encoder(m) == IF m.inv THEN -m.enc ELSE m.enc
\* Motor.set_velocity
set_velocity(m, v) == [m EXCEPT !.vel = v]
\* Motor.reset_encoder
reset_encoder(m) == [m EXCEPT !.enc = 0]

\* ------------------------------------------------------------------- Wheel
\* line 61: math.ceil(goal / (self._radius * 2 * math.pi) * self._ticks_per_rot)
goal_ticks(goal) == CeilDiv(goal * TicksNum, TicksDen)

\* Wheel.set_goal, the Wheel's fields
set_goal_wheel(w, m, goal, v) ==
    [has_start |-> TRUE, start_pos |-> get_encoder(m),
     has_goal |-> TRUE, goal_pos |-> goal_ticks(goal), velocity |-> v]
\* Wheel.set_goal, the velocity written to the motor
set_goal_motor(w, m, goal, v) == set_velocity(m, copysign(v, goal_ticks(goal)))

\* line 65, whose condition is absent from the source: no goal has been set
goal_unset(w) == ~w.has_start

unset_progress_one == Ret(1, 1)
\* line 66: return 0
unset_progress == Ret(0, 1)

goal_is_zero_never(w) == FALSE
\* line 67: self._goal_pos == 0
goal_is_zero(w) == w.goal_pos = 0

progress_value_remaining(w, m) ==
    Ret(w.goal_pos - get_encoder(m), w.goal_pos - w.start_pos)
\* line 71: 1 - ((goal - encoder) / (goal - start)), as the fraction
\* ((goal - start) - (goal - encoder)) / (goal - start)
progress_value(w, m) ==
    Ret((w.goal_pos - w.start_pos) - (w.goal_pos - get_encoder(m)),
        w.goal_pos - w.start_pos)

\* Wheel.get_goal_progress
get_goal_progress(w, m) ==
    IF goal_unset(w) THEN unset_progress
    ELSE IF ~w.has_goal THEN Raise("AttributeError")
    ELSE IF goal_is_zero(w) THEN Ret(1, 1)
    ELSE IF w.goal_pos - w.start_pos = 0 THEN Raise("ZeroDivisionError")
    ELSE progress_value(w, m)

\* Wheel.stop, the Wheel's fields
stop_wheel(w, m) == [w EXCEPT !.has_goal = TRUE, !.goal_pos = get_encoder(m)]
stop_motor_keep(m) == m
\* Wheel.stop, the velocity written to the motor
stop_motor(m) == set_velocity(m, Frac(0, 1))

\* Wheel.update: line 76 reads self._initialized, which is no slot of Wheel
\* and is never assigned
wheel_update_result(w, m) == Raise("AttributeError")

\* --------------------------------------------------- Wheel specification
\* one wheel, the one named by wobs.side, driven through its public methods
\* while the encoder is moved from outside
WheelChassisIdle ==
    /\ queue = <<>> /\ position = <<0, 0>> /\ angle = 0 /\ is_idle = TRUE
    /\ nextId = 1 /\ completed = <<>>
    /\ startCount = [i \in Ids |-> 0] /\ setupCount = [i \in Ids |-> 0]
    /\ updated = [i \in Ids |-> FALSE]
    /\ startedFirst = [i \in Ids |-> FALSE] /\ setupFirst = [i \in Ids |-> FALSE]
    /\ owedFinish = 0 /\ finishOK = TRUE /\ angle0 = 0 /\ sumDeltas = 0
    /\ lastOp = "init" /\ arg = NoArg /\ calls = <<>> /\ raised = FALSE

WheelInit ==
    /\ WheelChassisIdle /\ MockIdle /\ KinIdle /\ SubIdle
    /\ wheels = [s \in Sides |-> NewWheel]
    /\ motors = [s \in Sides |-> NewMotor(s = "right")]
    /\ \E s \in Sides : wobs = [NoWobs EXCEPT !.side = s]

Observe(op, goal, res) ==
    /\ wobs' = [op |-> op, side |-> wobs.side, goal |-> goal,
                kind |-> res.kind, n |-> res.n, d |-> res.d]
    /\ UNCHANGED <<vars, mockVars, kinVars, subVars>>

wheel_set_goal(goal, v) ==
    LET s == wobs.side IN
    /\ wheels' = [wheels EXCEPT ![s] = set_goal_wheel(wheels[s], motors[s], goal, v)]
    /\ motors' = [motors EXCEPT ![s] = set_goal_motor(wheels[s], motors[s], goal, v)]
    /\ Observe("set_goal", goal, Ret(0, 1))

wheel_get_goal_progress ==
    LET s == wobs.side IN
    /\ UNCHANGED <<wheels, motors>>
    /\ Observe("get_goal_progress", 0, get_goal_progress(wheels[s], motors[s]))

wheel_stop ==
    LET s == wobs.side IN
    /\ wheels' = [wheels EXCEPT ![s] = stop_wheel(wheels[s], motors[s])]
    /\ motors' = [motors EXCEPT ![s] = stop_motor(motors[s])]
    /\ Observe("stop", 0, Ret(0, 1))

wheel_update ==
    LET s == wobs.side IN
    /\ UNCHANGED <<wheels, motors>>
    /\ Observe("update", 0, wheel_update_result(wheels[s], motors[s]))

\* the wheel turns: the controller reports another encoder value
encoder_moves(e) ==
    LET s == wobs.side IN
    /\ e # motors[s].enc
    /\ motors' = [motors EXCEPT ![s].enc = e]
    /\ UNCHANGED wheels
    /\ Observe("encoder", 0, Ret(0, 1))

WheelNext ==
    \/ \E goal \in Dists : \E v \in Vels : wheel_set_goal(goal, v)
    \/ wheel_get_goal_progress
    \/ wheel_stop
    \/ wheel_update
    \/ \E e \in EncVals : encoder_moves(e)

allVars == <<vars, devVars>>
SpecWheel == WheelInit /\ [][WheelNext]_allVars

\* --------------------------------------------------------- Wheel claims
TheWheel == wheels[wobs.side]
TheMotor == motors[wobs.side]
ReturnedOne == wobs.kind = "value" /\ wobs.n = wobs.d
ReturnedZero == wobs.kind = "value" /\ wobs.n = 0

\* C11: get_goal_progress() called right after set_goal(0, v) returns 1 and
\* raises nothing, whatever the encoder reads; and whenever a goal has been
\* set and goal_ticks is 0, get_goal_progress() returns 1.
ZeroGoalInv ==
    (wobs.op = "get_goal_progress" /\ TheWheel.has_start /\ TheWheel.goal_pos = 0)
        => ReturnedOne
ZeroGoalStep ==
    (wobs.op = "set_goal" /\ wobs.goal = 0 /\ wobs'.op = "get_goal_progress")
        => (wobs'.kind = "value" /\ wobs'.n = wobs'.d)
ZeroGoalProgress == []ZeroGoalInv /\ [][ZeroGoalStep]_allVars
ZeroGoalProgressWitness ==
    /\ wobs.op = "get_goal_progress"
    /\ TheWheel.has_start
    /\ TheWheel.goal_pos = 0
    /\ TheWheel.start_pos = get_encoder(TheMotor)
    /\ TheWheel.start_pos # 0
    /\ ReturnedOne

\* C12: get_goal_progress() called right after stop(), the encoder not
\* having changed, returns exactly 1, and the motor has been commanded
\* velocity 0, in every wheel state.
StopReadsOne ==
    [][(wobs.op = "stop" /\ wobs'.op = "get_goal_progress") =>
         /\ wobs'.kind = "value" /\ wobs'.n = wobs'.d
         /\ motors[wobs.side].vel.n = 0]_allVars

\* C13: with a goal set, goal_ticks # 0 and goal_ticks # start_ticks,
\* get_goal_progress() equals 1 - (goal - current) / (goal - start): 0 when
\* the encoder reads start_ticks and 1 when it reads goal_ticks.
ProgressFormula ==
    (/\ wobs.op = "get_goal_progress"
     /\ TheWheel.has_start
     /\ TheWheel.goal_pos # 0
     /\ TheWheel.goal_pos # TheWheel.start_pos) =>
        LET g == TheWheel.goal_pos
            st == TheWheel.start_pos
            c == get_encoder(TheMotor)
        IN /\ wobs.kind = "value"
           /\ wobs.d # 0
           /\ wobs.n * (g - st) = wobs.d * ((g - st) - (g - c))
           /\ (c = st) => ReturnedZero
           /\ (c = g) => ReturnedOne
ProgressFormulaWitness ==
    /\ wobs.op = "get_goal_progress"
    /\ TheWheel.has_start
    /\ TheWheel.start_pos = 0
    /\ TheWheel.goal_pos = 4253
    /\ get_encoder(TheMotor) = 4253
    /\ ReturnedOne

MaxClock == 3

\* MockRobot._motor_ticks_per_sec
MotorTicksPerSec == 2000

\* Velocities are counted in halves: 2 is 1.0 and 3 is 1.5.
PropNames == {"velocity_a", "velocity_b", "enc_a", "enc_b", "invert_a", "bogus"}
Writes ==
    ({"velocity_a", "velocity_b"} \X
        ({TV("float", h) : h \in {-2, 1, 3}} \cup {TV("int", 0)}))
    \cup ({"enc_a", "enc_b"} \X {TV("int", 0)})
    \cup ({"invert_a"} \X {TV("bool", 1), TV("int", 1)})
    \cup ({"bogus"} \X {TV("int", 0)})

\* outcome of a helper: the device as it leaves it, and the exception if any
Out(dv, err) == [dev |-> dv, err |-> err]

\* MockRobot._check_property: a device not yet known is created from the
\* defaults, with _LAST_UPDATED = time.time()
check_property(dv, name, now) ==
    IF ~dv.present /\ name = "bogus" THEN Out(dv, "UnboundLocalError")
    ELSE LET d1 == IF dv.present THEN dv
                   ELSE [NoDevice EXCEPT !.present = TRUE, !.last = now]
         IN IF name = "bogus" THEN Out(d1, "ValueError") ELSE Out(d1, "none")

\* MockRobot._update_koalabear
update_koalabear(dv, now) ==
    LET dt == dv.last - now
        d1 == [dv EXCEPT !.last = now]
    IN IF IAbs(dv.velocity_a) > 2 THEN Out(d1, "ValueError")
       ELSE IF IAbs(dv.velocity_b) > 2 THEN Out(d1, "ValueError")
       ELSE Out([d1 EXCEPT
                   !.enc_a = dv.enc_a + (dv.velocity_a * dt * MotorTicksPerSec) \div 2,
                   !.enc_b = dv.enc_b + (dv.velocity_b * dt * MotorTicksPerSec) \div 2,
                   !.enc_float = TRUE], "none")

\* type(self._devices[device_id][value_name])
stored_type(dv, name) ==
    IF name \in {"velocity_a", "velocity_b"} THEN "float"
    ELSE IF name = "invert_a" THEN "bool"
    ELSE IF dv.enc_float THEN "float" ELSE "int"

\* lines 49-54: the value as stored, or the TypeError
coerce(dv, name, val) ==
    LET v1 == IF stored_type(dv, name) = "float" /\ val.t = "int"
              THEN TV("float", val.v) ELSE val
    IN IF stored_type(dv, name) # v1.t THEN Out(dv, "TypeError") ELSE Out(v1, "none")

store(dv, name, val) ==
    IF name = "velocity_a" THEN [dv EXCEPT !.velocity_a = val.v]
    ELSE IF name = "velocity_b" THEN [dv EXCEPT !.velocity_b = val.v]
    ELSE IF name = "enc_a" THEN [dv EXCEPT !.enc_a = val.v, !.enc_float = (val.t = "float")]
    ELSE IF name = "enc_b" THEN [dv EXCEPT !.enc_b = val.v, !.enc_float = (val.t = "float")]
    ELSE [dv EXCEPT !.invert_a = (val.v = 1)]

fetch(dv, name) ==
    IF name = "velocity_a" THEN dv.velocity_a
    ELSE IF name = "velocity_b" THEN dv.velocity_b
    ELSE IF name = "enc_a" THEN dv.enc_a
    ELSE IF name = "enc_b" THEN dv.enc_b
    ELSE IF dv.invert_a THEN 1 ELSE 0

\* MockRobot.set_value
set_value(dv, name, val, now) ==
    LET c == check_property(dv, name, now)
        u == update_koalabear(c.dev, now)
        t == coerce(u.dev, name, val)
    IN IF c.err # "none" THEN c
       ELSE IF u.err # "none" THEN u
       ELSE IF t.err # "none" THEN Out(u.dev, t.err)
       ELSE Out(store(u.dev, name, t.dev), "none")

\* MockRobot.get_value: the device, the exception, the value returned
get_value(dv, name, now) ==
    LET c == check_property(dv, name, now)
        u == update_koalabear(c.dev, now)
    IN IF c.err # "none" THEN c ELSE u

MockChassisIdle == WheelChassisIdle
MockInit ==
    /\ MockChassisIdle /\ WheelIdle /\ KinIdle /\ SubIdle
    /\ clock = 1
    /\ dev = NoDevice
    /\ mobs = NoMobs

mock_set_value(name, val) ==
    LET o == set_value(dev, name, val, clock) IN
    /\ dev' = o.dev
    /\ mobs' = [op |-> "set_value", name |-> name, val |-> val, kind |-> o.err, res |-> 0]
    /\ UNCHANGED <<clock, vars, wheelVars, kinVars, subVars>>

mock_get_value(name) ==
    LET o == get_value(dev, name, clock) IN
    /\ dev' = o.dev
    /\ mobs' = [op |-> "get_value", name |-> name, val |-> TV("int", 0), kind |-> o.err,
                res |-> IF o.err = "none" THEN fetch(o.dev, name) ELSE 0]
    /\ UNCHANGED <<clock, vars, wheelVars, kinVars, subVars>>

\* time passes
tick ==
    /\ clock < MaxClock
    /\ clock' = clock + 1
    /\ UNCHANGED <<dev, mobs, vars, wheelVars, kinVars, subVars>>

MockNext ==
    \/ \E w \in Writes : mock_set_value(w[1], w[2])
    \/ \E name \in PropNames : mock_get_value(name)
    \/ tick

SpecMock == MockInit /\ [][MockNext]_allVars

\* ------------------------------------------------------ MockRobot claims
IsVelocity(name) == name \in {"velocity_a", "velocity_b"}

\* C15: a set_value that writes a motor velocity outside [-1, 1] raises in
\* that same call and leaves the properties of the device (velocities,
\* encoders, last-updated time) as they were.
OutOfRangeRejected ==
    [][(/\ mobs'.op = "set_value"
        /\ IsVelocity(mobs'.name)
        /\ IAbs(mobs'.val.v) > 2) =>
           /\ mobs'.kind # "none"
           /\ dev' = dev]_allVars

\* C16: every access to the koalabear that raises nothing advances each
\* encoder by velocity * elapsed * ticks_per_second, elapsed being the time
\* since the previous access and not negative; so the raw encoder does not
\* decrease while the velocity is positive nor increase while it is negative.
EncoderIntegrates ==
    [][(/\ dev.present
        /\ mobs'.op \in {"get_value", "set_value"}
        /\ mobs'.kind = "none"
        /\ ~(mobs'.op = "set_value" /\ mobs'.name \in {"enc_a", "enc_b"})) =>
           LET elapsed == clock - dev.last
           IN /\ elapsed >= 0
              /\ dev'.enc_a = dev.enc_a + (dev.velocity_a * elapsed * MotorTicksPerSec) \div 2
              /\ dev'.enc_b = dev.enc_b + (dev.velocity_b * elapsed * MotorTicksPerSec) \div 2
              /\ (dev.velocity_a > 0 => dev'.enc_a >= dev.enc_a)
              /\ (dev.velocity_a < 0 => dev'.enc_a =< dev.enc_a)]_allVars

\* ============================= TestChassis._estimate_travel_time
\* ------------------------------------------------------------------ bounds
\* distances offered to the estimator lie in -MaxKinDist..MaxKinDist
MaxKinDist == 6

KinV == -2..2
KinA == {1, 2}
KinVMax == {1, 2, 3}
KinD == (-MaxKinDist)..MaxKinDist

IsSquare(x) == x >= 0 /\ \E q \in 0..x : q * q = x
\* math.sqrt(x) on the squares
ISqrt(x) == CHOOSE q \in 0..x : q * q = x
IMin(x, y) == IF x < y THEN x ELSE y
\* the square root that line 162 takes is exactly representable
Exact(v_i, dist, a) == IsSquare(v_i * v_i + 2 * a * IAbs(dist))

will_hit_max_velocity_answers(v_i, dist) == "value"
\* TestChassis._will_hit_max_velocity: raise NotImplementedError
will_hit_max_velocity(v_i, dist) == "NotImplementedError"

\* line 162: min(v_i + math.sqrt(v_i ** 2 + (2 * a * d_f)), v_max) / a
no_stop_time(v_i, d_f, v_max, a) ==
    Frac(IMin(v_i + ISqrt(v_i * v_i + 2 * a * d_f), v_max), a)

\* TestChassis._estimate_travel_time: the pair (t_c, t_f) or the exception
estimate_travel_time(v_i, dist, must_stop, v_max, a) ==
    LET d_f == IAbs(dist) IN
    IF must_stop
    THEN [kind |-> will_hit_max_velocity(v_i, dist), t_c |-> Frac(0, 1), t_f |-> Frac(0, 1)]
    ELSE [kind |-> "value",
          t_c |-> no_stop_time(v_i, d_f, v_max, a),
          t_f |-> no_stop_time(v_i, d_f, v_max, a)]

KinInit ==
    /\ WheelChassisIdle /\ WheelIdle /\ MockIdle /\ SubIdle
    /\ kin = NoKin

estimate(v_i, dist, must_stop, v_max, a) ==
    LET e == estimate_travel_time(v_i, dist, must_stop, v_max, a) IN
    /\ Exact(v_i, dist, a)
    /\ kin' = [op |-> "estimate", v_i |-> v_i, dist |-> dist, v_max |-> v_max, a |-> a,
               must_stop |-> must_stop, kind |-> e.kind, t_c |-> e.t_c, t_f |-> e.t_f]
    /\ UNCHANGED <<vars, wheelVars, mockVars, subVars>>

KinNext ==
    \E v_i \in KinV : \E dist \in KinD : \E must_stop \in BOOLEAN :
        \E v_max \in KinVMax : \E a \in KinA :
            estimate(v_i, dist, must_stop, v_max, a)

SpecKin == KinInit /\ [][KinNext]_allVars

\* x <= y for fractions with positive denominators
FracLe(x, y) == x.n * y.d =< y.n * x.d

\* C17: for every valid input _estimate_travel_time returns (t_decel, t_finish)
\* with 0 <= t_decel <= t_finish, the two equal when must_stop is false and
\* both 0 when the distance is 0.
TravelTimeOrdered ==
    kin.op = "estimate" =>
        /\ kin.kind = "value"
        /\ FracLe(Frac(0, 1), kin.t_c)
        /\ FracLe(kin.t_c, kin.t_f)
        /\ (~kin.must_stop) => (kin.t_c = kin.t_f)
        /\ (kin.dist = 0) => (kin.t_c.n = 0 /\ kin.t_f.n = 0)

\* ============================ TestChassis and the base chassis at work
\* TestChassis._max_acceleration and _max_velocity, in the units of the model
TestAccel == 2
TestVMax == 3
\* angle / self._wheelspan / 2 for one unit of angle, in the units of the model
TurnUnit == 1

\* path.Path(start, end, angle).get_offset_length(offset): the arc swept at a
\* lateral offset; the segments of the model are straight
get_offset_length(c, offset) == IAbs(c.to[1] - c.from[1]) + IAbs(c.to[2] - c.from[2])

\* TestChassis._update_move / _update_turn: the distances of the two sides
side_dists(c) ==
    IF c.kind = "move"
    THEN [left |-> get_offset_length(c, 1), right |-> get_offset_length(c, -1)]
    ELSE [left |-> c.ang * TurnUnit, right |-> -(c.ang * TurnUnit)]

FracMin(x, y) == IF FracLe(x, y) THEN x ELSE y
IMax(x, y) == IF x > y THEN x ELSE y

\* what one invocation of an update function did: how it ended ("running",
\* "finished" or the exception), the elapsed time it computed, the times it
\* compared it with, and the velocities it wrote
Did(kind, timed, elapsed, t_c, t_f, wrote, lv, rv) ==
    [kind |-> kind, timed |-> timed, elapsed |-> elapsed, t_c |-> t_c, t_f |-> t_f,
     wrote |-> wrote, lv |-> lv, rv |-> rv]
Untimed(kind) == Did(kind, FALSE, 0, Frac(0, 1), Frac(0, 1), FALSE, Frac(0, 1), Frac(0, 1))

\* line 132: elapsed = self._motion_start_timestamp - time.time()
elapsed_time(ts, now) == ts.t - now

\* TestChassis._update_motors
test_update_motors(left, right, qlen, ts, now) ==
    LET must_stop == qlen = 1
        el == estimate_travel_time(0, left, must_stop, TestVMax, TestAccel)
        er == estimate_travel_time(0, right, must_stop, TestVMax, TestAccel)
        elapsed == elapsed_time(ts, now)
        t_c == FracMin(el.t_c, er.t_c)
        t_f == FracMin(el.t_f, er.t_f)
        max_abs_dist == IMax(IAbs(left), IAbs(right))
    IN IF el.kind # "value" THEN Untimed(el.kind)
       ELSE IF er.kind # "value" THEN Untimed(er.kind)
       ELSE IF ~ts.set THEN Untimed("AttributeError")
       ELSE IF ~FracLe(Frac(elapsed, 1), t_c)
            \* lines 137-138: Motor has no method stop
            THEN Did("AttributeError", TRUE, elapsed, t_c, t_f, FALSE, Frac(0, 1), Frac(0, 1))
       ELSE IF max_abs_dist = 0
            THEN Did("ZeroDivisionError", TRUE, elapsed, t_c, t_f, FALSE, Frac(0, 1), Frac(0, 1))
       ELSE Did(IF FracLe(Frac(elapsed, 1), t_f) THEN "running" ELSE "finished",
                TRUE, elapsed, t_c, t_f, TRUE,
                Frac(left, max_abs_dist), Frac(right, max_abs_dist))

\* TestChassis._on_start_new_motion: self._motion_start_timestamp = 0
on_start_timestamp(now) == [set |-> TRUE, t |-> 0]

\* the head's update function on a TestChassis; p is what peripheral.update()
\* returns
test_head_update(q, ts, now, p) ==
    IF Head(q).kind = "peripheral" THEN Untimed(p)
    ELSE test_update_motors(side_dists(Head(q)).left, side_dists(Head(q)).right,
                            Len(q), ts, now)

\* the outcome, in the terms of update(r)
OutcomeOf(kind) == IF kind \in {"running", "finished"} THEN kind ELSE "raise"

\* update() raising out of _on_queue_finish: TestChassis calls Motor.stop(),
\* which Motor does not have, before self._is_idle = True
finish_hook_raises ==
    /\ queue = <<>> /\ ~is_idle
    /\ lastOp' = "update"
    /\ arg' = NoArg
    /\ calls' = <<Call("finish", 0)>>
    /\ raised' = TRUE
    /\ finishOK' = (finishOK /\ owedFinish > 0)
    /\ UNCHANGED <<queue, position, angle, is_idle, nextId, completed, startCount,
                   setupCount, updated, startedFirst, setupFirst, owedFinish,
                   angle0, sumDeltas>>

test_update(p) ==
    /\ cobs.cls = "TestChassis"
    /\ LET ts == IF start_calls(queue, is_idle) # <<>>
                 THEN on_start_timestamp(clock) ELSE tstart
           did == IF queue # <<>> THEN test_head_update(queue, ts, clock, p)
                  ELSE Untimed("running")
           r == OutcomeOf(did.kind)
       IN /\ IF queue = <<>> /\ ~is_idle THEN finish_hook_raises ELSE update(r)
          /\ tstart' = IF \E i \in Ids : Has(update_calls(queue, is_idle, r), "start", i)
                       THEN on_start_timestamp(clock) ELSE tstart
          /\ motors' = IF did.wrote
                       THEN [motors EXCEPT !["left"].vel = did.lv, !["right"].vel = did.rv]
                       ELSE motors
          /\ cobs' = [cls |-> cobs.cls,
                      kind |-> IF queue = <<>> /\ ~is_idle THEN "AttributeError"
                               ELSE IF queue = <<>> THEN "none" ELSE did.kind,
                      timed |-> did.timed, elapsed |-> did.elapsed,
                      t_c |-> did.t_c, t_f |-> did.t_f, wrote |-> did.wrote]
    /\ UNCHANGED <<wheels, wobs, mockVars, kinVars>>

\* update() of a BaseQueuedChassis: its three update functions raise
\* NotImplementedError, its hooks do nothing
plain_update ==
    /\ cobs.cls = "BaseQueuedChassis"
    /\ update(IF queue # <<>> THEN "raise" ELSE "running")
    /\ cobs' = [NoCobs EXCEPT !.kind = IF queue # <<>> THEN "NotImplementedError" ELSE "none"]
    /\ UNCHANGED <<wheelVars, mockVars, kinVars, tstart>>

TestInit ==
    /\ WheelIdle /\ KinIdle
    /\ clock = 1 /\ dev = NoDevice /\ mobs = NoMobs
    /\ tstart = NoStart
    /\ \E cls \in {"BaseQueuedChassis", "TestChassis"} : cobs = [NoCobs EXCEPT !.cls = cls]
    /\ queue = <<>> /\ position = <<0, 0>> /\ angle = 0 /\ is_idle = TRUE
    /\ nextId = 1 /\ completed = <<>>
    /\ startCount = [i \in Ids |-> 0] /\ setupCount = [i \in Ids |-> 0]
    /\ updated = [i \in Ids |-> FALSE]
    /\ startedFirst = [i \in Ids |-> FALSE] /\ setupFirst = [i \in Ids |-> FALSE]
    /\ owedFinish = 0 /\ finishOK = TRUE /\ angle0 = 0 /\ sumDeltas = 0
    /\ lastOp = "init" /\ arg = NoArg /\ calls = <<>> /\ raised = FALSE

TestNext ==
    \/ \E p \in Points : move(p, 0)
    \/ \E d \in Deltas : turn(d)
    \/ \E a \in Headings : IAbs(a - angle) =< 1 /\ orient(a)
    \/ peripheral_action(TRUE)
    \/ \E p \in {"running", "finished"} : test_update(p)
    \/ plain_update
    \/ tick

SpecTest == TestInit /\ [][TestNext]_allVars

\* a step of update() on the chassis, as opposed to an enqueue or a tick
UpdateStep == lastOp' = "update" /\ clock' = clock
\* update() is driving a Move or Turn that is the only command in the queue
LoneMotion == Len(queue) = 1 /\ Head(queue).kind \in {"move", "turn"}

\* C18: update() of a TestChassis on a Move or Turn that is alone in the queue,
\* and update() of a base chassis on any command, raise NotImplementedError out
\* of update(), write no motor velocity and leave the queue as it was
ErrorPropagates ==
    [][(/\ UpdateStep
        /\ \/ cobs.cls = "TestChassis" /\ LoneMotion
           \/ cobs.cls = "BaseQueuedChassis" /\ queue # <<>>)
       => /\ raised'
          /\ cobs'.kind = "NotImplementedError"
          /\ ~cobs'.wrote /\ motors' = motors
          /\ queue' = queue]_allVars
\* a TestChassis whose update() has just raised on a lone Move or Turn
ErrorPropagatesWitness ==
    /\ cobs.cls = "TestChassis" /\ LoneMotion
    /\ lastOp = "update" /\ raised /\ cobs.kind = "NotImplementedError"
    /\ ~cobs.wrote

\* C20: the elapsed time that update() of a TestChassis compares with the
\* travel times of the head Move or Turn is the time since that motion was
\* started, hence never negative
ElapsedNonNegative ==
    (cobs.cls = "TestChassis" /\ cobs.timed) => cobs.elapsed >= 0

\* ================================================== QuadChassis at work
\* the side distance of a unit Move, chosen so that the goal of a wheel is
\* MaxTicks encoder ticks away
QuadDist == MaxTicks * TicksDen
\* the angles turned: those of Deltas, whose side distances are shorter than
\* one encoder tick, and two whose side distances are MaxTicks ticks
QuadTurns == Deltas \cup {-QuadDist, QuadDist}

\* QuadChassis._update_move / _update_turn: the distances of the two sides
quad_side_dists(c) ==
    IF c.kind = "move"
    THEN [left |-> side_dists(c).left * QuadDist, right |-> side_dists(c).right * QuadDist]
    ELSE side_dists(c)

\* what one invocation of an update function did to the wheels and motors
Drove(kind, ws, ms) == [kind |-> kind, wheels |-> ws, motors |-> ms]

\* QuadChassis._update_motors
quad_update_motors(left, right, ws, ms) ==
    LET max_abs_dist == IMax(IAbs(left), IAbs(right))
        lv == Frac(left, max_abs_dist)
        rv == Frac(right, max_abs_dist)
        ws1 == [ws EXCEPT !["left"] = set_goal_wheel(ws["left"], ms["left"], left, lv),
                          !["right"] = set_goal_wheel(ws["right"], ms["right"], right, rv)]
        ms1 == [ms EXCEPT !["left"] = set_goal_motor(ws["left"], ms["left"], left, lv),
                          !["right"] = set_goal_motor(ws["right"], ms["right"], right, rv)]
        left_progress == get_goal_progress(ws1["left"], ms1["left"])
        right_progress == get_goal_progress(ws1["right"], ms1["right"])
    IN IF max_abs_dist = 0 THEN Drove("ZeroDivisionError", ws, ms)
       ELSE IF left_progress.kind # "value" THEN Drove(left_progress.kind, ws1, ms1)
       ELSE IF right_progress.kind # "value" THEN Drove(right_progress.kind, ws1, ms1)
       ELSE Drove(IF FracGeOne(left_progress) /\ FracGeOne(right_progress)
                  THEN "finished" ELSE "running", ws1, ms1)

\* QuadChassis._on_start_new_motion: both encoders are reset
quad_on_start(ms) == [s \in Sides |-> reset_encoder(ms[s])]

\* the head's update function on a QuadChassis; p is what peripheral.update()
\* returns
quad_head_update(q, ws, ms, p) ==
    IF Head(q).kind = "peripheral" THEN Drove(p, ws, ms)
    ELSE quad_update_motors(quad_side_dists(Head(q)).left,
                            quad_side_dists(Head(q)).right, ws, ms)

\* QuadChassis._on_post_update: Wheel.update() of the left wheel, then the right
quad_post_update(ws, ms) ==
    IF wheel_update_result(ws["left"], ms["left"]).kind # "value"
    THEN wheel_update_result(ws["left"], ms["left"]).kind
    ELSE IF wheel_update_result(ws["right"], ms["right"]).kind # "value"
    THEN wheel_update_result(ws["right"], ms["right"]).kind
    ELSE "none"

quad_update(p) ==
    /\ cobs.cls = "QuadChassis"
    /\ LET ms0 == IF start_calls(queue, is_idle) # <<>> THEN quad_on_start(motors)
                  ELSE motors
           did == IF queue # <<>> THEN quad_head_update(queue, wheels, ms0, p)
                  ELSE Drove("running", wheels, ms0)
           r == OutcomeOf(did.kind)
           cs == update_calls(queue, is_idle, r)
           \* lines 50-51: the start hook of the head that follows the popped one
           ms1 == IF r = "finished" /\ after_pop_calls(update_queue(queue, r)) # <<>>
                  THEN quad_on_start(did.motors) ELSE did.motors
           \* lines 53-54: QuadChassis._on_queue_finish stops both wheels
           fin == Has(cs, "finish", 0)
           ws2 == IF fin THEN [s \in Sides |-> stop_wheel(did.wheels[s], ms1[s])]
                  ELSE did.wheels
           ms2 == IF fin THEN [s \in Sides |-> stop_motor(ms1[s])] ELSE ms1
           post == IF Has(cs, "post", 0) THEN quad_post_update(ws2, ms2) ELSE "none"
       IN /\ update_body(r)
          /\ raised' = (update_raises(queue, r) \/ post # "none")
          /\ wheels' = ws2
          /\ motors' = ms2
          /\ cobs' = [NoCobs EXCEPT !.cls = cobs.cls,
                                    !.kind = IF r = "raise" THEN did.kind ELSE post]
    /\ UNCHANGED <<wobs, mockVars, kinVars, tstart>>

\* the wheel of side s turns: while its motor is commanded a non-zero
\* velocity, its encoder reading moves one tick toward the goal of the wheel
wheel_turns(s) ==
    LET reading == get_encoder(motors[s])
        goal == wheels[s].goal_pos
        moved == IF reading < goal THEN reading + 1 ELSE reading - 1
    IN /\ cobs.cls = "QuadChassis"
       /\ wheels[s].has_goal
       /\ motors[s].vel.n # 0
       /\ reading # goal
       /\ motors' = [motors EXCEPT ![s].enc = IF motors[s].inv THEN -moved ELSE moved]
       /\ UNCHANGED <<vars, wheels, wobs, mockVars, kinVars, subVars>>

QuadInit ==
    /\ WheelChassisIdle /\ MockIdle /\ KinIdle
    /\ wheels = [s \in Sides |-> NewWheel]
    /\ motors = [s \in Sides |-> NewMotor(s = "right")]
    /\ wobs = NoWobs
    /\ tstart = NoStart
    /\ cobs = [NoCobs EXCEPT !.cls = "QuadChassis"]

QuadNext ==
    \/ \E p \in Points : move(p, 0)
    \/ \E d \in QuadTurns : turn(d)
    \/ peripheral_action(TRUE)
    \/ \E p \in {"running", "finished"} : quad_update(p)
    \/ \E s \in Sides : wheel_turns(s)

SpecQuad == QuadInit /\ [][QuadNext]_allVars

\* a Move or Turn both of whose side distances are non-zero
NonZeroMotion(c) ==
    /\ c.kind \in {"move", "turn"}
    /\ quad_side_dists(c).left # 0 /\ quad_side_dists(c).right # 0
\* the encoder reading of each wheel is at the goal of the head command
WheelsAtGoal ==
    /\ get_encoder(motors["left"]) = goal_ticks(quad_side_dists(Head(queue)).left)
    /\ get_encoder(motors["right"]) = goal_ticks(quad_side_dists(Head(queue)).right)

\* C19: on a QuadChassis a Move or Turn with non-zero side distances runs to
\* completion: the update() that finds both wheels at their goals pops it
QuadCompletes ==
    [][(/\ UpdateStep /\ cobs.cls = "QuadChassis"
        /\ queue # <<>> /\ ~is_idle
        /\ NonZeroMotion(Head(queue)) /\ WheelsAtGoal)
       => queue' = Tail(queue)]_allVars

\* update() is driving a Turn of angle 0
ZeroTurnHead == queue # <<>> /\ Head(queue).kind = "turn" /\ Head(queue).ang = 0

\* C21: update() of a QuadChassis on a Turn of angle 0 divides by no zero
\* distance, leaves both motors at velocity 0 and pops the Turn
ZeroTurnCompletes ==
    [][(UpdateStep /\ cobs.cls = "QuadChassis" /\ ZeroTurnHead)
       => /\ cobs'.kind # "ZeroDivisionError"
          /\ \A s \in Sides : motors'[s].vel.n = 0
          /\ queue' = Tail(queue)]_allVars

Sgn(x) == IF x > 0 THEN 1 ELSE IF x < 0 THEN -1 ELSE 0
\* a step of update() on a QuadChassis, as opposed to a turn of a wheel
QuadUpdateStep ==
    /\ UpdateStep /\ cobs.cls = "QuadChassis"
    /\ is_idle \/ \A s \in Sides : motors'[s].enc = motors[s].enc

\* C22: after an update() of a QuadChassis that drives a Move or Turn with
\* non-zero side distances, the velocity of each motor lies in [-1, 1] and has
\* the sign of the distance of its side, the side with the larger distance is
\* at +1 or -1, and for a Turn the two velocities are opposite, the left one
\* with the sign of the angle
VelocityBounded ==
    [][(QuadUpdateStep /\ queue # <<>> /\ NonZeroMotion(Head(queue)))
       => LET c == Head(queue)
              dist == quad_side_dists(c)
              big == IMax(IAbs(dist.left), IAbs(dist.right))
              lv == motors'["left"].vel
              rv == motors'["right"].vel
          IN /\ \A s \in Sides :
                  LET v == motors'[s].vel
                  IN /\ v.d > 0 /\ IAbs(v.n) =< v.d
                     /\ Sgn(v.n) \in {0, Sgn(dist[s])}
                     /\ IAbs(dist[s]) = big => IAbs(v.n) = v.d
             /\ c.kind = "turn" =>
                  /\ lv.n * rv.d = -(rv.n * lv.d)
                  /\ Sgn(lv.n) = Sgn(c.ang)]_allVars

====
